---- MODULE Spec2Model ----
(***************************************************************************)
(* Cleanup resolvers of the ApostropheCMS SDK smoke tests.                 *)
(*                                                                         *)
(* Three pieces of the repository delete a document whose identifier form  *)
(* is uncertain:                                                           *)
(*   media : safeDeleteDocument, src/media-api-tests.js 79-104, called by  *)
(*           the cleanup loop of runMediaTests (317-331);                  *)
(*   pages : safeDeletePage, src/authorization-api-tests.js 817-912;       *)
(*   users : the cleanup block of runUsersApiTests,                        *)
(*           src/unnamed/part_000 210-228.                                 *)
(*                                                                         *)
(* An identifier is the sequence of its ':'-separated segments, so that    *)
(* 'x:en:published' is <<"x","en","published">>; null/undefined is <<>>.   *)
(* Every await of an SDK call is two steps: the call is issued (appended   *)
(* to calls with res "pending"), then it returns and the continuation runs *)
(* up to the next await.                                                   *)
(***************************************************************************)
EXTENDS Naturals, Sequences, FiniteSets

VARIABLES
    resolver,        \* which script runs: "media", "pages" or "users"
    it,              \* the created item: [id, aposDocId] (state.created entry / page id / user id)
    unpublishMethod, \* whether the resolver has an unpublish step (media 323-326, pages 834)
    itemId,          \* media: the itemId parameter of safeDeleteDocument
    tryList,         \* media: [...new Set(tryIds)]
    idx,             \* media: position of the for-of loop in tryList
    actualPageData,  \* pages: [loaded, aposDocId] of the fetched page
    pc,              \* position of the running resolver
    calls,           \* every SDK call issued so far: [op, id, res]
    logged,          \* the delete failures written to the console: [id, res]
    outcome,         \* how the resolution ended
    store,           \* identifier forms under which the document still exists
    round,           \* number of the resolution in progress
    stable,          \* the store answers one identifier the same way every time
    fault,           \* stable store: identifiers whose delete always errors
    prevOutcome,     \* outcome of the resolution before the current one
    storeAtStart,    \* the store when the current resolution started
    phase,           \* runMediaTests: where the run is
    created,         \* runMediaTests: state.created, entries [id, aposDocId, type]
    createLog,       \* runMediaTests: the create calls made so far: [type, res]
    items,           \* runMediaTests: the list the cleanup loop iterates
    pos,             \* runMediaTests: position of the cleanup loop in items
    resolved,        \* runMediaTests: the calls of safeDeleteDocument: [type, id, ret]
    other,           \* a second safeDeleteDocument flow: [pc, itemId, tryList, idx, calls, outcome]
    env,             \* authentication script: process.env
    apc,             \* authentication script: where the run is
    bearerToken,     \* authentication script: whether Test 5 stored a bearer token
    authLog,         \* authentication script: the logTest calls so far: [test, ok]
    authCalls,       \* authentication script: the endpoints called so far
    authWith,        \* authentication script: per call, [test, cred, token]
    att,           \* attachments script: where the run is
    testImageBuffer, \* attachments script: "null" or "loaded"
    uploadedAttachment, \* attachments script: "null", or what Test 2 stored
    imageSize,       \* attachments script: [width, height] of what Test 2 stored (0: none)
    cropRequest,     \* attachments script: the cropRequest Test 4 sent
    results,         \* attachments script: [passed, failed, errors] of the runner
    executed,        \* attachments script: the tests the runner has called
    gpc,             \* global content script: where the run is
    gnext,           \* global content script: number of the next test
    globalDocumentId, \* global content script: "null", "undefined" or a document id
    globalCalls,     \* global content script: the API calls so far: [op, id]
    globalLog,       \* global content script: the logTest calls so far: [test, ok]
    upc,             \* users script: where the run is
    testUserId,      \* users script: "null" or the _id userCreate answered
    userCalls,       \* users script: the API calls so far: [op, id, res]
    userLog          \* users script: the logTest calls so far: [test, ok]

\* The state of the media test run around the resolver.
batchVars == <<phase, created, createLog, items, pos, resolved>>

\* The state of a second flow of the resolver.
raceVars == <<other>>

\* The state of the authentication script.
authVars == <<env, apc, bearerToken, authLog, authCalls, authWith>>

\* The state of the attachments script.
attVars == <<att, testImageBuffer, uploadedAttachment, imageSize, cropRequest,
            results, executed>>

\* The state of the global content script.
globalVars == <<gpc, gnext, globalDocumentId, globalCalls, globalLog>>

\* The state of the users script.
usersVars == <<upc, testUserId, userCalls, userLog>>

\* The state of the scripts that share nothing with the other suites.
scriptVars == <<globalVars, usersVars>>

\* The state of the suites around the resolvers.
suiteVars == <<batchVars, raceVars, authVars, attVars, scriptVars>>

\* What a step of the media test run itself leaves alone.
nonBatchVars == <<raceVars, authVars, attVars, scriptVars>>

\* What a step of the second flow leaves alone.
nonRaceVars == <<batchVars, authVars, attVars, scriptVars>>

\* The state of the resolvers and of the store.
resolverVars == <<resolver, it, unpublishMethod, itemId, tryList, idx,
                  actualPageData, pc, calls, logged, outcome, store, round,
                  stable, fault, prevOutcome, storeAtStart>>

\* What a step of the authentication script leaves alone.
nonAuthVars == <<resolverVars, batchVars, raceVars, attVars, scriptVars>>

\* What a step of the attachments script leaves alone.
nonAttVars == <<resolverVars, batchVars, raceVars, authVars, scriptVars>>

\* What a step of the global content script leaves alone.
nonGlobalVars == <<resolverVars, batchVars, raceVars, authVars, attVars, usersVars>>

\* What a step of the users script leaves alone.
nonUsersVars == <<resolverVars, batchVars, raceVars, authVars, attVars, globalVars>>

vars == <<resolver, it, unpublishMethod, itemId, tryList, idx, actualPageData,
          pc, calls, logged, outcome, store, round, stable, fault,
          prevOutcome, storeAtStart, suiteVars>>

----------------------------------------------------------------------------
(* Identifiers *)

NoId    == <<>>
IdBare  == <<"x">>
IdPub   == <<"x", "en", "published">>
IdDraft == <<"x", "en", "draft">>
IdFr    == <<"x", "fr", "published">>
Ids     == {IdBare, IdPub, IdDraft, IdFr}

\* Number of resolutions run one after the other against the same store.
MaxRounds == 2

\* Position of the first ':en:published' in id, 0 when there is none.
\* The marker starts with ':', so it never matches at the first segment.
MarkerAt(id) ==
    LET hits == {k \in 2..(Len(id) - 1) : id[k] = "en" /\ id[k + 1] = "published"}
    IN  IF hits = {} THEN 0 ELSE CHOOSE k \in hits : \A m \in hits : k <= m

\* id.includes(':en:published')
IncludesPublished(id) == MarkerAt(id) # 0

\* id.replace(':en:published', ':en:draft'): the first occurrence only.
ReplacePublishedByDraft(id) ==
    IF MarkerAt(id) = 0 THEN id
    ELSE [k \in 1..Len(id) |-> IF k = MarkerAt(id) + 1 THEN "draft" ELSE id[k]]

\* id.split(':')[0]
SplitFirst(id) == <<id[1]>>

\* a || b on identifiers
OrElse(a, b) == IF a = NoId THEN b ELSE a

\* [...new Set(s)]: duplicates removed, first occurrence kept.
RECURSIVE NewSet(_)
NewSet(s) ==
    IF s = <<>> THEN <<>>
    ELSE LET front == NewSet(SubSeq(s, 1, Len(s) - 1))
             last  == s[Len(s)]
         IN  IF \E k \in 1..Len(front) : front[k] = last
             THEN front ELSE Append(front, last)

----------------------------------------------------------------------------
(* The external store, seen through the SDK calls.                         *)
(* A call resolves with status 200 ("ok200") or with another status        *)
(* ("okOther"), or throws with response status 404 ("e404"), with another  *)
(* response status ("eHttp"), or without a response ("eNoResp").           *)

Thrown == {"e404", "eHttp", "eNoResp"}

\* What deleteMethod(id) can answer. An identifier form answers not-found only
\* when the document does not exist under it; the generated client rejects a
\* missing id before any request. A stable store answers by its state alone.
DeleteResults(id) ==
    IF id = NoId THEN {"eNoResp"}
    ELSE IF stable
    THEN IF id \in fault.del THEN {"eHttp"}
         ELSE IF id \in store THEN {"ok200"} ELSE {"e404"}
    ELSE (IF id \in store THEN {"ok200", "okOther"} ELSE {"e404"})
         \cup {"eHttp", "eNoResp"}

\* The store after deleteMethod(id) answered res: a delete is atomic, and once
\* one succeeds the document is gone under every form. A 2xx answer other than
\* 200 leaves open whether the document was removed.
StoreAfterDelete(id, res) ==
    IF res = "ok200" THEN {{}}
    ELSE IF res = "okOther" THEN {store, {}}
    ELSE {store}

\* What unpublishMethod(id) can answer: not-found when nothing is published.
UnpublishResults(id) ==
    IF stable
    THEN IF fault.unpub THEN {"eHttp"}
         ELSE IF IdPub \in store THEN {"ok200"} ELSE {"e404"}
    ELSE (IF IdPub \in store THEN {"ok200"} ELSE {"e404"})
         \cup {"eHttp", "eNoResp"}

\* Unpublishing removes the published version.
StoreAfterUnpublish(res) ==
    IF res = "ok200" THEN store \ {IdPub} ELSE store

\* What pageGetById(id) can answer: the page with its aposDocId ("okDoc"), a
\* page object without aposDocId ("okNoDocId"), a response without data
\* ("okNoData"), or an error.
GetResults(id) ==
    (IF id \in store THEN {"okDoc", "okNoDocId", "okNoData"} ELSE {"e404"})
    \cup {"eHttp", "eNoResp"}

\* The call log with one more call in flight.
Issue(log, op, id) == Append(log, [op |-> op, id |-> id, res |-> "pending"])

\* The call log with the call in flight answered.
Answer(res) == [calls EXCEPT ![Len(calls)].res = res]

InFlight == IF calls # <<>> /\ calls[Len(calls)].res = "pending"
            THEN calls[Len(calls)] ELSE [op |-> "none", id |-> NoId, res |-> "none"]

----------------------------------------------------------------------------
(* media: safeDeleteDocument and the cleanup loop that calls it *)

\* Mutant: the bare id is tried first.
TryIds_BareFirst(id) == NewSet(<<SplitFirst(id), id, ReplacePublishedByDraft(id)>>)

\* line 89-90: the candidate ids of safeDeleteDocument.
TryIds(id) == NewSet(<<id, ReplacePublishedByDraft(id), SplitFirst(id)>>)

\* Mutant: the cleanup prefers the raw id to the aposDocId.
CleanupItemId_RawFirst(item) == OrElse(item.id, item.aposDocId)

\* line 328: the id the cleanup hands to safeDeleteDocument.
CleanupItemId(item) == OrElse(item.aposDocId, item.id)

\* Mutant: a successful delete does not end the loop.
MediaOnDelete_NoShortCircuit(res) ==
    CASE res = "e404"  -> "gone"
      [] OTHER         -> "next"

\* Mutant: not-found is treated as any other error.
MediaOnDelete_NotFoundIsError(res) ==
    CASE res = "ok200" -> "deleted"
      [] OTHER         -> "next"

\* lines 92-97: what one answer of deleteMethod makes the loop do.
MediaOnDelete(res) ==
    CASE res = "ok200" -> "deleted"
      [] res = "e404"  -> "gone"
      [] OTHER         -> "next"

\* Mutant: only errors that carry a response are written to the console.
MediaLogs_OnlyHttp(res) == res = "eHttp"

\* lines 94-96: a thrown error other than 404 is written to the console.
MediaLogs(res) == res \in Thrown /\ res # "e404"

\* Mutant: an unpublish error escapes to the outer catch.
MediaOnUnpublish_Aborts(res) ==
    IF res = "ok200" THEN "pause" ELSE "abort"

\* lines 82-88: what an answer of unpublishMethod makes safeDeleteDocument do.
\* An error escaping the inner try would reach the outer catch (99-103).
MediaOnUnpublish(res) ==
    IF res = "ok200" THEN "pause" ELSE "continue"

\* line 328 and lines 79-92: the cleanup calls safeDeleteDocument, which runs
\* up to its first await.
MediaCleanup ==
    /\ pc = "idle" /\ resolver = "media"
    /\ itemId' = CleanupItemId(it)
    /\ storeAtStart' = store
    /\ IF itemId' = NoId
       THEN /\ outcome' = "Failed" /\ pc' = "done"
            /\ UNCHANGED <<calls, tryList, idx>>
       ELSE /\ outcome' = outcome
            /\ IF unpublishMethod
               THEN /\ calls' = Issue(calls, "unpublish", itemId')
                    /\ pc' = "m_unpub"
                    /\ UNCHANGED <<tryList, idx>>
               ELSE /\ tryList' = TryIds(itemId')
                    /\ idx' = 1
                    /\ calls' = Issue(calls, "delete", tryList'[1])
                    /\ pc' = "m_delete"
    /\ UNCHANGED <<resolver, it, unpublishMethod, actualPageData, logged, store,
                   round, stable, fault, prevOutcome,
                   suiteVars>>

\* lines 83-92: unpublishMethod returned; on success the function pauses, on
\* any error it logs and goes on to the candidates.
MediaUnpublishReturns ==
    /\ pc = "m_unpub"
    /\ \E res \in UnpublishResults(itemId) :
         /\ store' = StoreAfterUnpublish(res)
         /\ CASE MediaOnUnpublish(res) = "pause" ->
                   /\ calls' = Answer(res)
                   /\ pc' = "m_pause"
                   /\ UNCHANGED <<tryList, idx, outcome>>
              [] MediaOnUnpublish(res) = "continue" ->
                   /\ tryList' = TryIds(itemId)
                   /\ idx' = 1
                   /\ calls' = Issue(Answer(res), "delete", tryList'[1])
                   /\ pc' = "m_delete"
                   /\ outcome' = outcome
              [] OTHER ->
                   /\ calls' = Answer(res)
                   /\ outcome' = "Failed" /\ pc' = "done"
                   /\ UNCHANGED <<tryList, idx>>
    /\ UNCHANGED <<resolver, it, unpublishMethod, itemId, actualPageData, logged,
                   round, stable, fault, prevOutcome, storeAtStart,
                   suiteVars>>

\* line 83, wait(400) elapsed; lines 89-92: the first candidate is tried.
MediaWaitElapsed ==
    /\ pc = "m_pause"
    /\ tryList' = TryIds(itemId)
    /\ idx' = 1
    /\ calls' = Issue(calls, "delete", tryList'[1])
    /\ pc' = "m_delete"
    /\ UNCHANGED <<resolver, it, unpublishMethod, itemId, actualPageData, logged,
                   outcome, store, round, stable, fault, prevOutcome, storeAtStart,
                   suiteVars>>

\* lines 90-103: deleteMethod returned for the candidate at idx.
MediaDeleteReturns ==
    /\ pc = "m_delete"
    /\ \E res \in DeleteResults(tryList[idx]) :
       \E s2 \in StoreAfterDelete(tryList[idx], res) :
         /\ store' = s2
         /\ logged' = IF MediaLogs(res)
                      THEN Append(logged, [id |-> tryList[idx], res |-> res])
                      ELSE logged
         /\ CASE MediaOnDelete(res) = "deleted" ->
                   /\ calls' = Answer(res)
                   /\ outcome' = "Deleted" /\ pc' = "done"
                   /\ idx' = idx
              [] MediaOnDelete(res) = "gone" ->
                   /\ calls' = Answer(res)
                   /\ outcome' = "AlreadyAbsent" /\ pc' = "done"
                   /\ idx' = idx
              [] OTHER ->
                   IF idx < Len(tryList)
                   THEN /\ idx' = idx + 1
                        /\ calls' = Issue(Answer(res), "delete", tryList[idx + 1])
                        /\ UNCHANGED <<outcome, pc>>
                   ELSE /\ calls' = Answer(res)
                        /\ outcome' = "Failed" /\ pc' = "done"
                        /\ idx' = idx
    /\ UNCHANGED <<resolver, it, unpublishMethod, itemId, tryList, actualPageData,
                   round, stable, fault, prevOutcome, storeAtStart,
                   suiteVars>>

NextMedia ==
    \/ MediaCleanup
    \/ MediaUnpublishReturns
    \/ MediaWaitElapsed
    \/ MediaDeleteReturns


----------------------------------------------------------------------------
(* pages: safeDeletePage *)

\* lines 823-829: what the resolver keeps of the answer of pageGetById. A
\* response without data makes line 826 throw inside the inner try, and
\* actualPageData stays empty.
PageDataOf(res) ==
    CASE res = "okDoc"     -> [loaded |-> TRUE,  aposDocId |-> IdBare]
      [] res = "okNoDocId" -> [loaded |-> TRUE,  aposDocId |-> NoId]
      [] OTHER             -> [loaded |-> FALSE, aposDocId |-> NoId]

\* Mutant: without fetched data the page id is used as it is.
PageDeleteId_KeepsMode(pageId, data) ==
    IF data.loaded THEN data.aposDocId ELSE pageId

\* lines 845-856: the id of the first delete attempt.
PageDeleteId(pageId, data) ==
    IF data.loaded THEN data.aposDocId
    ELSE IF IncludesPublished(pageId) THEN SplitFirst(pageId)
    ELSE pageId

\* lines 859, 872-892: the ids safeDeletePage passes to pageDeleteById, in the
\* order of its attempts.
PageCandidates(pageId, data) ==
    IF IncludesPublished(pageId)
    THEN <<PageDeleteId(pageId, data), ReplacePublishedByDraft(pageId), SplitFirst(pageId)>>
    ELSE <<PageDeleteId(pageId, data)>>

\* lines 832-839: every answer of pageUnpublishById is logged and ignored.
PagesOnUnpublish(res) == "continue"

\* lines 859-871: what the answer of the first delete makes safeDeletePage do.
PagesOnFirstDelete(res) ==
    CASE res = "ok200"   -> "deleted"
      [] res = "okOther" -> "failed"
      [] OTHER           -> "alternatives"

\* Mutant: the alternative deletes run without a try of their own.
PagesOnAltDelete_Uncaught(res) ==
    IF res = "ok200" THEN "deleted"
    ELSE IF res \in Thrown THEN "throw" ELSE "next"

\* lines 878-899: what the answer of an alternative delete makes it do. Each
\* alternative has its own try/catch (877-885, 891-899); an error thrown in
\* the outer catch block outside of them would leave safeDeletePage.
PagesOnAltDelete(res) ==
    IF res = "ok200" THEN "deleted" ELSE "next"

\* lines 915-922 and 817-824: safeDeletePage is called and fetches the page.
PagesCleanup ==
    /\ pc = "idle" /\ resolver = "pages"
    /\ storeAtStart' = store
    /\ calls' = Issue(calls, "get", it.id)
    /\ pc' = "p_get"
    /\ UNCHANGED <<resolver, it, unpublishMethod, itemId, tryList, idx,
                   actualPageData, logged, outcome, store, round, stable, fault,
                   prevOutcome,
                   suiteVars>>

\* lines 823-834: pageGetById returned; the unpublish step is issued.
PagesGetReturns ==
    /\ pc = "p_get"
    /\ \E res \in GetResults(it.id) :
         /\ actualPageData' = PageDataOf(res)
         /\ calls' = Issue(Answer(res), "unpublish", it.id)
    /\ pc' = "p_unpub"
    /\ UNCHANGED <<resolver, it, unpublishMethod, itemId, tryList, idx, logged,
                   outcome, store, round, stable, fault, prevOutcome, storeAtStart,
                   suiteVars>>

\* lines 832-841: pageUnpublishById returned; the function pauses.
PagesUnpublishReturns ==
    /\ pc = "p_unpub"
    /\ \E res \in UnpublishResults(it.id) :
         /\ store' = StoreAfterUnpublish(res)
         /\ calls' = Answer(res)
         /\ IF PagesOnUnpublish(res) = "continue"
            THEN pc' = "p_pause" /\ outcome' = outcome
            ELSE pc' = "done" /\ outcome' = "Failed"
    /\ UNCHANGED <<resolver, it, unpublishMethod, itemId, tryList, idx,
                   actualPageData, logged, round, stable, fault, prevOutcome,
                   storeAtStart,
                   suiteVars>>

\* line 841, wait(200) elapsed; lines 845-859: the first delete is issued.
PagesWaitElapsed ==
    /\ pc = "p_pause"
    /\ idx' = 1
    /\ calls' = Issue(calls, "delete", PageCandidates(it.id, actualPageData)[1])
    /\ pc' = "p_delete1"
    /\ UNCHANGED <<resolver, it, unpublishMethod, itemId, tryList, actualPageData,
                   logged, outcome, store, round, stable, fault, prevOutcome,
                   storeAtStart,
                   suiteVars>>

\* lines 859-878 and 902-910: the first pageDeleteById returned.
PagesFirstDeleteReturns ==
    /\ pc = "p_delete1"
    /\ LET cands == PageCandidates(it.id, actualPageData) IN
       \E res \in DeleteResults(cands[1]) :
       \E s2 \in StoreAfterDelete(cands[1], res) :
         /\ store' = s2
         /\ logged' = IF res \in Thrown
                      THEN Append(logged, [id |-> cands[1], res |-> res])
                      ELSE logged
         /\ CASE PagesOnFirstDelete(res) = "deleted" ->
                   /\ calls' = Answer(res)
                   /\ outcome' = "Deleted" /\ pc' = "done" /\ idx' = idx
              [] PagesOnFirstDelete(res) = "alternatives" /\ Len(cands) > 1 ->
                   /\ idx' = 2
                   /\ calls' = Issue(Answer(res), "delete", cands[2])
                   /\ pc' = "p_delete2" /\ outcome' = outcome
              [] OTHER ->
                   /\ calls' = Answer(res)
                   /\ outcome' = "Failed" /\ pc' = "done" /\ idx' = idx
    /\ UNCHANGED <<resolver, it, unpublishMethod, itemId, tryList, actualPageData,
                   round, stable, fault, prevOutcome, storeAtStart,
                   suiteVars>>

\* lines 873-910: pageDeleteById returned for the draft id or the base id.
PagesAltDeleteReturns ==
    /\ pc = "p_delete2"
    /\ LET cands == PageCandidates(it.id, actualPageData) IN
       \E res \in DeleteResults(cands[idx]) :
       \E s2 \in StoreAfterDelete(cands[idx], res) :
         /\ store' = s2
         /\ logged' = IF res \in Thrown
                      THEN Append(logged, [id |-> cands[idx], res |-> res])
                      ELSE logged
         /\ CASE PagesOnAltDelete(res) = "deleted" ->
                   /\ calls' = Answer(res)
                   /\ outcome' = "Deleted" /\ pc' = "done" /\ idx' = idx
              [] PagesOnAltDelete(res) = "throw" ->
                   /\ calls' = Answer(res)
                   /\ outcome' = "Threw" /\ pc' = "done" /\ idx' = idx
              [] PagesOnAltDelete(res) = "next" /\ idx < Len(cands) ->
                   /\ idx' = idx + 1
                   /\ calls' = Issue(Answer(res), "delete", cands[idx + 1])
                   /\ UNCHANGED <<outcome, pc>>
              [] OTHER ->
                   /\ calls' = Answer(res)
                   /\ outcome' = "Failed" /\ pc' = "done" /\ idx' = idx
    /\ UNCHANGED <<resolver, it, unpublishMethod, itemId, tryList, actualPageData,
                   round, stable, fault, prevOutcome, storeAtStart,
                   suiteVars>>

NextPages ==
    \/ PagesCleanup
    \/ PagesGetReturns
    \/ PagesUnpublishReturns
    \/ PagesWaitElapsed
    \/ PagesFirstDeleteReturns
    \/ PagesAltDeleteReturns

----------------------------------------------------------------------------
(* users: the cleanup block of runUsersApiTests *)

\* lines 214-225: what the answer of userDeleteById is reported as.
UsersOnDelete(res) ==
    IF res = "ok200" THEN "deleted" ELSE "failed"

\* lines 212-214: the created user is deleted, in one attempt.
UsersCleanup ==
    /\ pc = "idle" /\ resolver = "users"
    /\ storeAtStart' = store
    /\ calls' = Issue(calls, "delete", it.id)
    /\ pc' = "u_delete"
    /\ UNCHANGED <<resolver, it, unpublishMethod, itemId, tryList, idx,
                   actualPageData, logged, outcome, store, round, stable, fault,
                   prevOutcome,
                   suiteVars>>

\* lines 214-225: userDeleteById returned.
UsersDeleteReturns ==
    /\ pc = "u_delete"
    /\ \E res \in DeleteResults(it.id) :
       \E s2 \in StoreAfterDelete(it.id, res) :
         /\ store' = s2
         /\ calls' = Answer(res)
         /\ logged' = IF res \in Thrown
                      THEN Append(logged, [id |-> it.id, res |-> res])
                      ELSE logged
         /\ outcome' = IF UsersOnDelete(res) = "deleted" THEN "Deleted" ELSE "Failed"
    /\ pc' = "done"
    /\ UNCHANGED <<resolver, it, unpublishMethod, itemId, tryList, idx,
                   actualPageData, round, stable, fault, prevOutcome, storeAtStart,
                   suiteVars>>

NextUsers ==
    \/ UsersCleanup
    \/ UsersDeleteReturns

----------------------------------------------------------------------------
(* Specifications *)

NoFault == [del |-> {}, unpub |-> FALSE]

\* The locals of a resolution that has not started.
Fresh ==
    /\ itemId = NoId
    /\ tryList = <<>>
    /\ idx = 0
    /\ actualPageData = [loaded |-> FALSE, aposDocId |-> NoId]
    /\ pc = "idle"
    /\ calls = <<>>
    /\ logged = <<>>
    /\ outcome = "none"

\* No test run surrounds the resolution.
NoBatch ==
    /\ phase = "none"
    /\ created = <<>> /\ createLog = <<>>
    /\ items = <<>> /\ pos = 0
    /\ resolved = <<>>

\* The locals of a flow of safeDeleteDocument that is not running.
IdleFlow == [pc |-> "off", itemId |-> NoId, tryList |-> <<>>, idx |-> 0,
             calls |-> <<>>, outcome |-> "none"]

\* No second flow runs.
NoRace == other = IdleFlow

\* The authentication script is not running.
NoAuth ==
    /\ env = [apiKey |-> "unset", credentials |-> "unset",
              testEmail |-> "unset", runReset |-> "unset"]
    /\ apc = "off"
    /\ bearerToken = FALSE
    /\ authLog = <<>> /\ authCalls = <<>> /\ authWith = <<>>

\* Data without width and height (a property that is absent and one that is 0
\* are both falsy on lines 341 and 235).
NoSize == [width |-> 0, height |-> 0]

\* No crop request has been sent.
NoCrop == [sent |-> FALSE, id |-> "null", width |-> 0, height |-> 0]

\* The attachments script is not running.
NoAtt ==
    /\ att = "off"
    /\ testImageBuffer = "null" /\ uploadedAttachment = "null"
    /\ imageSize = NoSize /\ cropRequest = NoCrop
    /\ results = [passed |-> 0, failed |-> 0, errors |-> <<>>]
    /\ executed = <<>>

\* The global content script is not running.
NoGlobal ==
    /\ gpc = "off" /\ gnext = 1
    /\ globalDocumentId = "null"
    /\ globalCalls = <<>> /\ globalLog = <<>>

\* The users script is not running.
NoUsers ==
    /\ upc = "off"
    /\ testUserId = "null"
    /\ userCalls = <<>> /\ userLog = <<>>

\* None of the scripts that share nothing with the other suites is running.
NoScript == NoGlobal /\ NoUsers

NoSuite == NoBatch /\ NoRace /\ NoAuth /\ NoAtt /\ NoScript

\* One resolution of one created document by one of the three scripts, against
\* a store that may answer any call with an error. Only media items carry an
\* aposDocId of their own (line 139); a user id has no locale or mode suffix.
Init ==
    /\ resolver \in {"media", "pages", "users"}
    /\ it \in [id : Ids, aposDocId : {NoId, IdBare}]
    /\ resolver # "media" => it.aposDocId = NoId
    /\ resolver = "users" => it.id = IdBare
    /\ unpublishMethod = (resolver # "users")
    /\ store \in SUBSET Ids
    /\ storeAtStart = store
    /\ Fresh
    /\ round = 1
    /\ stable = FALSE
    /\ fault = NoFault
    /\ prevOutcome = "none"
    /\ NoSuite

Next == NextMedia \/ NextPages \/ NextUsers

Spec == Init /\ [][Next]_vars

\* safeDeleteDocument is called again for the same item once it has returned.
CallAgain ==
    /\ pc = "done" /\ round < MaxRounds
    /\ round' = round + 1
    /\ prevOutcome' = outcome
    /\ storeAtStart' = store
    /\ itemId' = NoId
    /\ tryList' = <<>>
    /\ idx' = 0
    /\ pc' = "idle"
    /\ calls' = <<>>
    /\ logged' = <<>>
    /\ outcome' = "none"
    /\ UNCHANGED <<resolver, it, unpublishMethod, actualPageData, store, stable, fault,
                   suiteVars>>

\* safeDeleteDocument called MaxRounds times in sequence for one item, against
\* a stable store: a delete of an identifier in fault.del always errors, any
\* other delete answers by the presence of the identifier alone.
InitTwice ==
    /\ resolver = "media"
    /\ it \in [id : Ids, aposDocId : {NoId, IdBare}]
    /\ unpublishMethod = TRUE
    /\ store \in SUBSET Ids
    /\ storeAtStart = store
    /\ Fresh
    /\ round = 1
    /\ stable = TRUE
    /\ fault \in [del : SUBSET Ids, unpub : BOOLEAN]
    /\ prevOutcome = "none"
    /\ NoSuite

NextTwice == NextMedia \/ CallAgain

SpecTwice == InitTwice /\ [][NextTwice]_vars


----------------------------------------------------------------------------
(* media: runMediaTests, the run that records what it creates and retires   *)
(* it in Test 15. Each create test is one step (the call and its handler);  *)
(* the tests in between do not touch state.created.                         *)

\* lines 139, 247, 269, 279: the create tests, in the order they run.
CreateTypes == <<"image", "file", "imageTag", "fileTag">>

\* What a create call can answer: status 200 with an _id, status 200 without
\* one, another 2xx status, or an error.
CreateResults == {"ok200", "okNoId", "okOther", "thrown"}

\* The documents a create call can return: with their aposDocId, or with a
\* published _id and no aposDocId.
CreatedDocs == {[id |-> IdDraft, aposDocId |-> IdBare],
                [id |-> IdPub,   aposDocId |-> NoId]}

NoDoc == [id |-> NoId, aposDocId |-> NoId]

\* line 139: status === 200 && data?._id
Recorded(res) == res = "ok200"

Reverse(s) == [k \in 1..Len(s) |-> s[Len(s) + 1 - k]]

\* Mutant: the cleanup walks the list in creation order.
CleanupItems_CreationOrder(list) == list

\* line 318: [...state.created].reverse()
CleanupItems(list) == Reverse(list)

\* The document of a cleanup item is still in the store under its forms, or
\* has been removed behind the back of the run.
BatchStores == {{}, {IdBare, IdDraft, IdPub}}

\* lines 124-132: the test attachment is created; the run returns if it fails.
BatchSetup ==
    /\ phase = "setup"
    /\ \E ok \in BOOLEAN : phase' = IF ok THEN "create" ELSE "finished"
    /\ UNCHANGED <<resolver, it, unpublishMethod, itemId, tryList, idx,
                   actualPageData, pc, calls, logged, outcome, store, round,
                   stable, fault, prevOutcome, storeAtStart,
                   created, createLog, items, pos, resolved,
                   nonBatchVars>>

\* lines 136-141, 244-249, 266-271, 276-281: the next create test runs.
BatchCreate ==
    /\ phase = "create" /\ Len(createLog) < Len(CreateTypes)
    /\ LET type == CreateTypes[Len(createLog) + 1] IN
       \E res \in CreateResults :
       \E doc \in (IF res = "ok200" THEN CreatedDocs ELSE {NoDoc}) :
         /\ createLog' = Append(createLog,
                [type |-> type, res |-> res,
                 id |-> doc.id, aposDocId |-> doc.aposDocId])
         /\ created' = IF Recorded(res)
                       THEN Append(created, [id |-> doc.id,
                                             aposDocId |-> doc.aposDocId,
                                             type |-> type])
                       ELSE created
    /\ phase' = IF Len(createLog') = Len(CreateTypes) THEN "cleanup" ELSE "create"
    /\ UNCHANGED <<resolver, it, unpublishMethod, itemId, tryList, idx,
                   actualPageData, pc, calls, logged, outcome, store, round,
                   stable, fault, prevOutcome, storeAtStart,
                   items, pos, resolved,
                   nonBatchVars>>

\* Mutant: the list is reversed in place.
CreatedAfterReverse_InPlace(list) == Reverse(list)

\* line 318: reverse() works on the copy made by the spread, so state.created
\* is left as it was.
CreatedAfterReverse(list) == list

\* lines 317-318: Test 15 starts with the list to walk.
BatchCleanupStarts ==
    /\ phase = "cleanup"
    /\ items' = CleanupItems(created)
    /\ created' = CreatedAfterReverse(created)
    /\ pos' = 1
    /\ phase' = "loop"
    /\ UNCHANGED <<resolver, it, unpublishMethod, itemId, tryList, idx,
                   actualPageData, pc, calls, logged, outcome, store, round,
                   stable, fault, prevOutcome, storeAtStart,
                   createLog, resolved,
                   nonBatchVars>>

\* lines 319-328: the loop takes its next item and is about to call
\* safeDeleteDocument for it.
BatchPick ==
    /\ phase = "loop" /\ pc = "off" /\ pos <= Len(items)
    /\ it' = [id |-> items[pos].id, aposDocId |-> items[pos].aposDocId]
    /\ resolved' = Append(resolved, [type |-> items[pos].type,
                                     id |-> CleanupItemId(it'),
                                     ret |-> "running"])
    /\ store' \in BatchStores
    /\ storeAtStart' = store'
    /\ itemId' = NoId /\ tryList' = <<>> /\ idx' = 0
    /\ calls' = <<>> /\ logged' = <<>> /\ outcome' = "none"
    /\ pc' = "idle"
    /\ UNCHANGED <<resolver, unpublishMethod, actualPageData, round, stable,
                   fault, prevOutcome, phase, created, createLog, items, pos,
                   nonBatchVars>>

\* lines 328-330: safeDeleteDocument returned; wait(300) and the loop goes on.
BatchItemReturns ==
    /\ phase = "loop" /\ pc = "done"
    /\ resolved' = [resolved EXCEPT ![Len(resolved)].ret =
                        IF outcome \in {"Deleted", "AlreadyAbsent"}
                        THEN "true" ELSE "false"]
    /\ pos' = pos + 1
    /\ pc' = "off"
    /\ UNCHANGED <<resolver, it, unpublishMethod, itemId, tryList, idx,
                   actualPageData, calls, logged, outcome, store, round,
                   stable, fault, prevOutcome, storeAtStart,
                   phase, created, createLog, items,
                   nonBatchVars>>

\* lines 319 and 331: the list is exhausted.
BatchFinish ==
    /\ phase = "loop" /\ pc = "off" /\ pos > Len(items)
    /\ phase' = "finished"
    /\ UNCHANGED <<resolver, it, unpublishMethod, itemId, tryList, idx,
                   actualPageData, pc, calls, logged, outcome, store, round,
                   stable, fault, prevOutcome, storeAtStart,
                   created, createLog, items, pos, resolved,
                   nonBatchVars>>

\* One run of runMediaTests, from its setup to the end of its cleanup.
InitBatch ==
    /\ resolver = "media"
    /\ it = NoDoc
    /\ unpublishMethod = TRUE
    /\ store = {} /\ storeAtStart = {}
    /\ itemId = NoId /\ tryList = <<>> /\ idx = 0
    /\ actualPageData = [loaded |-> FALSE, aposDocId |-> NoId]
    /\ pc = "off"
    /\ calls = <<>> /\ logged = <<>> /\ outcome = "none"
    /\ round = 1 /\ stable = FALSE /\ fault = NoFault /\ prevOutcome = "none"
    /\ phase = "setup"
    /\ created = <<>> /\ createLog = <<>>
    /\ items = <<>> /\ pos = 0
    /\ resolved = <<>>
    /\ NoRace /\ NoAuth /\ NoAtt /\ NoScript

NextBatch ==
    \/ BatchSetup
    \/ BatchCreate
    \/ BatchCleanupStarts
    \/ BatchPick
    \/ NextMedia
    \/ BatchItemReturns
    \/ BatchFinish

SpecBatch == InitBatch /\ [][NextBatch]_vars

----------------------------------------------------------------------------
(* media: a second flow of safeDeleteDocument for the same item, interleaved *)
(* with the first at its awaits. Its locals are the fields of other; the    *)
(* store and the console are shared.                                        *)

\* A call log with its call in flight answered.
AnswerIn(log, res) == [log EXCEPT ![Len(log)].res = res]

\* lines 79-92: the second flow enters safeDeleteDocument and runs up to its
\* first await.
SecondCleanup ==
    /\ other.pc = "idle"
    /\ LET id == CleanupItemId(it) IN
       other' = IF id = NoId
                THEN [other EXCEPT !.itemId = id, !.outcome = "Failed",
                                   !.pc = "done"]
                ELSE IF unpublishMethod
                THEN [other EXCEPT !.itemId = id,
                                   !.calls = Issue(@, "unpublish", id),
                                   !.pc = "m_unpub"]
                ELSE [other EXCEPT !.itemId = id,
                                   !.tryList = TryIds(id), !.idx = 1,
                                   !.calls = Issue(@, "delete", TryIds(id)[1]),
                                   !.pc = "m_delete"]
    /\ UNCHANGED <<resolver, it, unpublishMethod, itemId, tryList, idx,
                   actualPageData, pc, calls, logged, outcome, store, round,
                   stable, fault, prevOutcome, storeAtStart, nonRaceVars>>

\* lines 83-92: unpublishMethod returned to the second flow.
SecondUnpublishReturns ==
    /\ other.pc = "m_unpub"
    /\ \E res \in UnpublishResults(other.itemId) :
         /\ store' = StoreAfterUnpublish(res)
         /\ other' =
              CASE MediaOnUnpublish(res) = "pause" ->
                     [other EXCEPT !.calls = AnswerIn(@, res), !.pc = "m_pause"]
                [] MediaOnUnpublish(res) = "continue" ->
                     [other EXCEPT !.tryList = TryIds(other.itemId), !.idx = 1,
                                   !.calls = Issue(AnswerIn(@, res), "delete",
                                                   TryIds(other.itemId)[1]),
                                   !.pc = "m_delete"]
                [] OTHER ->
                     [other EXCEPT !.calls = AnswerIn(@, res),
                                   !.outcome = "Failed", !.pc = "done"]
    /\ UNCHANGED <<resolver, it, unpublishMethod, itemId, tryList, idx,
                   actualPageData, pc, calls, logged, outcome, round,
                   stable, fault, prevOutcome, storeAtStart, nonRaceVars>>

\* line 83, wait(400) elapsed in the second flow; lines 89-92.
SecondWaitElapsed ==
    /\ other.pc = "m_pause"
    /\ other' = [other EXCEPT !.tryList = TryIds(other.itemId), !.idx = 1,
                              !.calls = Issue(@, "delete", TryIds(other.itemId)[1]),
                              !.pc = "m_delete"]
    /\ UNCHANGED <<resolver, it, unpublishMethod, itemId, tryList, idx,
                   actualPageData, pc, calls, logged, outcome, store, round,
                   stable, fault, prevOutcome, storeAtStart, nonRaceVars>>

\* lines 90-103: deleteMethod returned to the second flow.
SecondDeleteReturns ==
    /\ other.pc = "m_delete"
    /\ LET id == other.tryList[other.idx] IN
       \E res \in DeleteResults(id) :
       \E s2 \in StoreAfterDelete(id, res) :
         /\ store' = s2
         /\ logged' = IF MediaLogs(res)
                      THEN Append(logged, [id |-> id, res |-> res])
                      ELSE logged
         /\ other' =
              CASE MediaOnDelete(res) = "deleted" ->
                     [other EXCEPT !.calls = AnswerIn(@, res),
                                   !.outcome = "Deleted", !.pc = "done"]
                [] MediaOnDelete(res) = "gone" ->
                     [other EXCEPT !.calls = AnswerIn(@, res),
                                   !.outcome = "AlreadyAbsent", !.pc = "done"]
                [] OTHER ->
                     IF other.idx < Len(other.tryList)
                     THEN [other EXCEPT !.idx = @ + 1,
                                        !.calls = Issue(AnswerIn(@, res), "delete",
                                                        other.tryList[other.idx + 1])]
                     ELSE [other EXCEPT !.calls = AnswerIn(@, res),
                                        !.outcome = "Failed", !.pc = "done"]
    /\ UNCHANGED <<resolver, it, unpublishMethod, itemId, tryList, idx,
                   actualPageData, pc, calls, outcome, round,
                   stable, fault, prevOutcome, storeAtStart, nonRaceVars>>

NextSecond ==
    \/ SecondCleanup
    \/ SecondUnpublishReturns
    \/ SecondWaitElapsed
    \/ SecondDeleteReturns

\* The document of the item as the server can hold it: removed, as a draft,
\* or as a draft with its published version.
RaceStores == {{}, {IdBare, IdDraft}, {IdBare, IdDraft, IdPub}}

\* Two flows of safeDeleteDocument for one item against one stable store,
\* which answers each call atomically.
InitRace ==
    /\ resolver = "media"
    /\ it \in [id : Ids, aposDocId : {NoId, IdBare}]
    /\ unpublishMethod = TRUE
    /\ store \in RaceStores
    /\ storeAtStart = store
    /\ Fresh
    /\ round = 1
    /\ stable = TRUE
    /\ fault \in [del : SUBSET Ids, unpub : BOOLEAN]
    /\ prevOutcome = "none"
    /\ NoBatch /\ NoAuth /\ NoAtt /\ NoScript
    /\ other = [IdleFlow EXCEPT !.pc = "idle"]

NextRace == NextMedia \/ NextSecond

SpecRace == InitRace /\ [][NextRace]_vars

----------------------------------------------------------------------------
(* authentication script: src/authorization-api-tests.js 1-431. Each test   *)
(* is one step: its SDK call, if it makes one, and the logTest that         *)
(* follows.                                                                 *)

\* The values a variable of .env can have as a flag; process.env holds
\* strings, so 'false' is as truthy as 'true'.
EnvFlagValues == {"unset", "empty", "false", "true"}

\* JavaScript truthiness of a process.env entry.
Truthy(v) == v \notin {"unset", "empty"}

\* lines 48-344: the tests of runAuthenticationTests, in the order they run,
\* with the endpoint each calls, what it needs to run (140, 188, 239, 289),
\* whether it stores the bearer token (159-162) and whether it calls
\* authWhoAmIPost again after a successful logout (304-318).
AuthTests == <<
    [name |-> "Get authentication context", endpoint |-> "authContextPost",
     needs |-> "none", storesToken |-> FALSE, rechecks |-> FALSE],
    [name |-> "Get authentication context (GET)", endpoint |-> "authContext",
     needs |-> "none", storesToken |-> FALSE, rechecks |-> FALSE],
    [name |-> "Check current user (API key)", endpoint |-> "authWhoAmIPost",
     needs |-> "none", storesToken |-> FALSE, rechecks |-> FALSE],
    [name |-> "Check current user (GET)", endpoint |-> "authWhoAmI",
     needs |-> "none", storesToken |-> FALSE, rechecks |-> FALSE],
    [name |-> "Username/password login", endpoint |-> "authLogin",
     needs |-> "credentials", storesToken |-> TRUE, rechecks |-> FALSE],
    [name |-> "Session-based login", endpoint |-> "authLogin",
     needs |-> "credentials", storesToken |-> FALSE, rechecks |-> FALSE],
    [name |-> "Bearer token authentication", endpoint |-> "authWhoAmIPost",
     needs |-> "token", storesToken |-> FALSE, rechecks |-> FALSE],
    [name |-> "Logout with API key", endpoint |-> "authLogout",
     needs |-> "none", storesToken |-> FALSE, rechecks |-> FALSE],
    [name |-> "Logout with bearer token", endpoint |-> "authLogout",
     needs |-> "token", storesToken |-> FALSE, rechecks |-> TRUE],
    [name |-> "API key validity after logout", endpoint |-> "authWhoAmIPost",
     needs |-> "none", storesToken |-> FALSE, rechecks |-> FALSE] >>

\* What a call of the authentication API can answer: the expected response
\* ("ok", for authLogin also with a token, "okToken"), a response the test
\* does not accept, or an error.
AuthAnswers(endpoint) ==
    {"ok", "unexpected", "thrown"}
        \cup (IF endpoint = "authLogin" THEN {"okToken"} ELSE {})

\* lines 14-24 and 430-432: without an API key the script exits at once;
\* otherwise main starts runAuthenticationTests.
AuthStart ==
    /\ apc = "start"
    /\ apc' = IF Truthy(env.apiKey) THEN "tests" ELSE "exited"
    /\ UNCHANGED <<env, bearerToken, authLog, authCalls, authWith, nonAuthVars>>

\* Mutant: the bearer-token tests run whether or not a token was stored.
CanRun_TokenNotNeeded(t) ==
    CASE t.needs = "credentials" -> Truthy(env.credentials)
      [] OTHER                   -> TRUE

\* lines 142, 193, 241, 291: the condition under which the test makes its call.
CanRun(t) ==
    CASE t.needs = "credentials" -> Truthy(env.credentials)
      [] t.needs = "token"       -> bearerToken
      [] OTHER                   -> TRUE

\* The credential of the API instance the test calls: authApi carries the API
\* key (26); the login tests build a Configuration without one (151-154,
\* 201-204); Tests 7 and 9 build one with accessToken: bearerToken (244-248,
\* 294-298).
Credential(t) ==
    CASE t.needs = "credentials" -> "none"
      [] t.needs = "token"       -> "accessToken"
      [] OTHER                   -> "apiKey"

\* lines 48-344: the next test of runAuthenticationTests runs.
AuthRunTest ==
    /\ apc = "tests"
    /\ LET t   == AuthTests[Len(authLog) + 1]
           call(token) == [test |-> t.name, cred |-> Credential(t), token |-> token]
       IN  IF CanRun(t)
           THEN \E ans \in AuthAnswers(t.endpoint) :
                  /\ authCalls' = authCalls \o <<t.endpoint>>
                         \o (IF t.rechecks /\ ans = "ok"
                             THEN <<"authWhoAmIPost">> ELSE <<>>)
                  /\ authWith' = authWith \o <<call(ans = "okToken")>>
                         \o (IF t.rechecks /\ ans = "ok"
                             THEN <<call(FALSE)>> ELSE <<>>)
                  /\ authLog' = Append(authLog,
                         [test |-> t.name, ok |-> ans \in {"ok", "okToken"}])
                  /\ bearerToken' = (bearerToken \/ (t.storesToken /\ ans = "okToken"))
           ELSE /\ authLog' = Append(authLog, [test |-> t.name, ok |-> FALSE])
                /\ UNCHANGED <<authCalls, authWith, bearerToken>>
    /\ apc' = IF Len(authLog') = Len(AuthTests) THEN "gate" ELSE "tests"
    /\ UNCHANGED <<env, nonAuthVars>>

\* lines 418-423: main decides whether to run the password reset tests.
AuthGate ==
    /\ apc = "gate"
    /\ apc' = IF Truthy(env.testEmail) \/ Truthy(env.runReset)
              THEN "reset" ELSE "end"
    /\ UNCHANGED <<env, bearerToken, authLog, authCalls, authWith, nonAuthVars>>

\* lines 355-395: Test 1 of runPasswordResetTests.
AuthResetRequest ==
    /\ apc = "reset"
    /\ IF Truthy(env.testEmail)
       THEN \E ans \in {"ok", "unexpected", "e403", "thrown"} :
              /\ authCalls' = Append(authCalls, "authResetRequest")
              /\ authWith' = Append(authWith, [test |-> "Password reset request",
                                               cred |-> "apiKey", token |-> FALSE])
              /\ authLog' = Append(authLog,
                     [test |-> "Password reset request", ok |-> ans = "ok"])
       ELSE /\ authLog' = Append(authLog,
                     [test |-> "Password reset request", ok |-> FALSE])
            /\ UNCHANGED <<authCalls, authWith>>
    /\ apc' = "resetWait"
    /\ UNCHANGED <<env, bearerToken, nonAuthVars>>

\* lines 397-410: wait(500) elapsed; Test 2 of runPasswordResetTests.
AuthResetCompletion ==
    /\ apc = "resetWait"
    /\ authLog' = Append(authLog,
           [test |-> "Password reset completion", ok |-> FALSE])
    /\ apc' = "end"
    /\ UNCHANGED <<env, bearerToken, authCalls, authWith, nonAuthVars>>

\* No resolver runs.
NoResolver ==
    /\ resolver = "none"
    /\ it = NoDoc
    /\ unpublishMethod = FALSE
    /\ store = {} /\ storeAtStart = {}
    /\ itemId = NoId /\ tryList = <<>> /\ idx = 0
    /\ actualPageData = [loaded |-> FALSE, aposDocId |-> NoId]
    /\ pc = "off"
    /\ calls = <<>> /\ logged = <<>> /\ outcome = "none"
    /\ round = 1 /\ stable = FALSE /\ fault = NoFault /\ prevOutcome = "none"

\* One run of the authentication script under any .env.
InitAuth ==
    /\ env \in [apiKey : {"unset", "true"}, credentials : {"unset", "true"},
                testEmail : {"unset", "true"}, runReset : EnvFlagValues]
    /\ apc = "start"
    /\ bearerToken = FALSE
    /\ authLog = <<>> /\ authCalls = <<>> /\ authWith = <<>>
    /\ NoResolver /\ NoBatch /\ NoRace /\ NoAtt /\ NoScript

NextAuth ==
    \/ AuthStart
    \/ AuthRunTest
    \/ AuthGate
    \/ AuthResetRequest
    \/ AuthResetCompletion

SpecAuth == InitAuth /\ [][NextAuth]_vars

----------------------------------------------------------------------------
(* attachments script: src/attachments-api-tests.js. Each test function is  *)
(* one step: what it reads (the image file, or the answer of its SDK call), *)
(* what it stores, and whether it returns or throws.                        *)

\* lines 519-526: the tests of the runner, in the order of the array.
AttTests == <<"Load Test Image", "Upload Attachment", "Upload Invalid Parameters",
              "Crop Attachment", "Crop Invalid Parameters", "Upload Different Modes">>

\* What an upload can answer: a response whose data has an _id, one whose
\* data has none, one without data, or an error.
UploadAnswers == {"okWithId", "okNoId", "noData", "thrown"}

\* What the test reads. Test 1 (26-57) finds the image file valid, missing,
\* empty or unreadable. Tests 2 and 6 stop before their call without an image
\* (180, 471), Test 4 without an uploaded attachment (317). Tests 3 and 5
\* make a call that should be rejected.
AttAnswers(name) ==
    CASE name = "Load Test Image" -> {"loaded", "missing", "empty", "unreadable"}
      [] name \in {"Upload Attachment", "Upload Different Modes"} ->
           IF testImageBuffer = "null" THEN {"notCalled"} ELSE UploadAnswers
      [] name = "Upload Invalid Parameters" ->
           {"resolved", "e400", "e401", "eHttp", "eNoResp"}
      [] name = "Crop Attachment" ->
           IF uploadedAttachment = "null" THEN {"notCalled"}
           ELSE {"true", "notTrue", "thrown"}
      [] OTHER -> {"resolved", "e404", "e400", "e401", "eHttp", "eNoResp"}

\* Mutant: Test 5 is as lenient as Test 3 and returns whatever the crop call
\* answered.
AttReturns_LenientCrop(name, ans) ==
    CASE name = "Load Test Image"           -> ans = "loaded"
      [] name = "Upload Attachment"         -> ans = "okWithId"
      [] name = "Upload Invalid Parameters" -> TRUE
      [] name = "Crop Attachment"           -> ans = "true"
      [] name = "Crop Invalid Parameters"   -> TRUE
      [] OTHER                              -> ans = "okWithId"

\* Whether the test function returns (TRUE) or throws (FALSE).
\* Test 3 (269-292): the error it throws after an upload that succeeded is
\* caught by its own inner catch and reported as PARTIAL, so it returns
\* whatever the call answered. Test 5 (426-444) throws again from that catch.
AttReturns(name, ans) ==
    CASE name = "Load Test Image"           -> ans = "loaded"
      [] name = "Upload Attachment"         -> ans = "okWithId"
      [] name = "Upload Invalid Parameters" -> TRUE
      [] name = "Crop Attachment"           -> ans = "true"
      [] name = "Crop Invalid Parameters"   -> ans \in {"e404", "e400", "e401"}
      [] OTHER                              -> ans = "okWithId"

\* line 121: Test 1 stores the image it loaded.
BufferAfter(name, ans) ==
    IF name = "Load Test Image" /\ ans = "loaded" THEN "loaded" ELSE testImageBuffer

\* line 210: Test 2 stores response.data before it looks for the _id.
UploadedAfter(name, ans) ==
    IF name = "Upload Attachment" /\ ans \in {"okWithId", "okNoId"}
    THEN (IF ans = "okWithId" THEN "withId" ELSE "noId")
    ELSE uploadedAttachment

\* The largest side of an uploaded image.
MaxSide == 101

\* lines 333-334: width: 50, height: 50 of the crop Test 4 asks for.
CropSide == 50

\* The width or height of an uploaded image as response.data reports it:
\* around 1, around the crop's side and beyond, or not reported.
Sides == {0, 1, 2, 3, CropSide - 1, CropSide, CropSide + 1, MaxSide}

\* line 210: the width and height of the data Test 2 stored.
SizeAnswers(name, ans) ==
    IF name = "Upload Attachment" /\ ans \in {"okWithId", "okNoId"}
    THEN [width : Sides, height : Sides]
    ELSE {imageSize}

\* lines 345-350: a side of the crop that exceeds the image becomes
\* Math.floor(side of the image / 2).
AdjustedSide(side, limit) == IF side > limit THEN limit \div 2 ELSE side

\* lines 328-353: the cropRequest Test 4 builds from uploadedAttachment; its
\* sides are adjusted only when the attachment has a width and a height.
CropRequestFor(uploaded, size) ==
    IF size.width # 0 /\ size.height # 0
    THEN [sent |-> TRUE, id |-> uploaded,
          width |-> AdjustedSide(CropSide, size.width),
          height |-> AdjustedSide(CropSide, size.height)]
    ELSE [sent |-> TRUE, id |-> uploaded, width |-> CropSide, height |-> CropSide]

\* lines 319-361: Test 4 sends its crop request unless nothing was stored.
CropAfter(name, ans) ==
    IF name = "Crop Attachment" /\ ans # "notCalled"
    THEN CropRequestFor(uploadedAttachment, imageSize)
    ELSE cropRequest

\* Mutant: any failed test stops the suite.
AttStops_Any(name) == TRUE

\* line 543: the failure of this test stops the suite.
AttStops(name) == name = "Load Test Image"

\* lines 535-549: the runner calls its next test and counts the result.
AttRunTest ==
    /\ att = "running"
    /\ LET name == AttTests[Len(executed) + 1] IN
       \E ans \in AttAnswers(name) :
         /\ executed' = Append(executed, [test |-> name, ans |-> ans])
         /\ testImageBuffer' = BufferAfter(name, ans)
         /\ uploadedAttachment' = UploadedAfter(name, ans)
         /\ imageSize' \in SizeAnswers(name, ans)
         /\ cropRequest' = CropAfter(name, ans)
         /\ IF AttReturns(name, ans)
            THEN /\ results' = [results EXCEPT !.passed = @ + 1]
                 /\ att' = IF Len(executed') = Len(AttTests)
                           THEN "summary" ELSE "running"
            ELSE /\ results' = [results EXCEPT !.failed = @ + 1,
                                               !.errors = Append(@, name)]
                 /\ att' = IF AttStops(name) \/ Len(executed') = Len(AttTests)
                           THEN "summary" ELSE "running"
    /\ UNCHANGED nonAttVars

\* Mutant: the process exits with code 1 only when nothing passed.
ExitsWithFailure_NonePassed(res) == res.passed = 0

\* line 570: if (results.failed > 0) process.exit(1)
ExitsWithFailure(res) == res.failed > 0

\* lines 551-572: the summary is printed; the process exits with code 1 when
\* a test failed.
AttSummary ==
    /\ att = "summary"
    /\ att' = IF ExitsWithFailure(results) THEN "exited" ELSE "end"
    /\ UNCHANGED <<testImageBuffer, uploadedAttachment, imageSize, cropRequest,
                   results, executed,
                   nonAttVars>>

\* One run of runAllAttachmentTests.
InitAtt ==
    /\ att = "running"
    /\ testImageBuffer = "null" /\ uploadedAttachment = "null"
    /\ imageSize = NoSize /\ cropRequest = NoCrop
    /\ results = [passed |-> 0, failed |-> 0, errors |-> <<>>]
    /\ executed = <<>>
    /\ NoResolver /\ NoBatch /\ NoRace /\ NoAuth /\ NoScript

NextAtt ==
    \/ AttRunTest
    \/ AttSummary

SpecAtt == InitAtt /\ [][NextAtt]_vars

----------------------------------------------------------------------------
(* The global content script: src/unnamed/part_001 *)

\* The ids a global document can have.
GlobalIds == {"global1", "global2"}

\* lines 46-525: the tests of runGlobalContentTests in their order, with the
\* API operations each calls, whether it is gated on globalDocumentId (192,
\* 216, 247, 311, 342, 381, 430), whether it stores an id (60, 68, 134, 141,
\* 179), whether it reads the id from data.results[0] (60, 134) and whether
\* its failure ends the suite (75, 82).
GlobalTests == <<
    [name |-> "Verify authentication", ops |-> <<"globalGet">>,
     byId |-> FALSE, storesId |-> TRUE, list |-> TRUE, gate |-> TRUE],
    [name |-> "Get global content (published)", ops |-> <<"globalGet">>,
     byId |-> FALSE, storesId |-> FALSE, list |-> FALSE, gate |-> FALSE],
    [name |-> "Get global content (draft)", ops |-> <<"globalGet">>,
     byId |-> FALSE, storesId |-> TRUE, list |-> TRUE, gate |-> FALSE],
    [name |-> "Update global content", ops |-> <<"globalPost">>,
     byId |-> FALSE, storesId |-> TRUE, list |-> FALSE, gate |-> FALSE],
    [name |-> "Get global content by ID", ops |-> <<"globalGetById">>,
     byId |-> TRUE, storesId |-> FALSE, list |-> FALSE, gate |-> FALSE],
    [name |-> "Patch global content", ops |-> <<"globalPatchById">>,
     byId |-> TRUE, storesId |-> FALSE, list |-> FALSE, gate |-> FALSE],
    [name |-> "Publish global content", ops |-> <<"globalPublishById">>,
     byId |-> TRUE, storesId |-> FALSE, list |-> FALSE, gate |-> FALSE],
    [name |-> "Verify published content", ops |-> <<"globalGet">>,
     byId |-> FALSE, storesId |-> FALSE, list |-> FALSE, gate |-> FALSE],
    [name |-> "Get global document locales", ops |-> <<"globalGetLocalesById">>,
     byId |-> TRUE, storesId |-> FALSE, list |-> FALSE, gate |-> FALSE],
    [name |-> "Complete replacement with PUT",
     ops |-> <<"globalGetById", "globalPutById">>,
     byId |-> TRUE, storesId |-> FALSE, list |-> FALSE, gate |-> FALSE],
    [name |-> "Submit for review", ops |-> <<"globalSubmitById">>,
     byId |-> TRUE, storesId |-> FALSE, list |-> FALSE, gate |-> FALSE],
    [name |-> "Revert draft to published",
     ops |-> <<"globalRevertDraftToPublishedById">>,
     byId |-> TRUE, storesId |-> FALSE, list |-> FALSE, gate |-> FALSE],
    [name |-> "Archive global content", ops |-> <<"globalArchive">>,
     byId |-> FALSE, storesId |-> FALSE, list |-> FALSE, gate |-> FALSE],
    [name |-> "Restore global content", ops |-> <<"globalRestore">>,
     byId |-> FALSE, storesId |-> FALSE, list |-> FALSE, gate |-> FALSE],
    [name |-> "Final verification", ops |-> <<"globalGet">>,
     byId |-> FALSE, storesId |-> FALSE, list |-> FALSE, gate |-> FALSE] >>

\* What the calls of a test can answer: res is "ok" (the response the test
\* accepts), "unexpected" (another status or no data), "thrown" (the last
\* call threw), "firstThrown" (the first of two calls threw, 345) or
\* "okBroken" (status 200 with a results list whose first entry is null, so
\* that reading its _id throws, 60 and 134); id is the _id the response
\* carries: a document id, "undefined" (a first entry without _id) or
\* "none" (no entry, no _id).
GlobalAnswers(t) ==
    [res : {"ok"}, id : IF t.storesId
                        THEN GlobalIds \cup {"none"}
                                 \cup (IF t.list THEN {"undefined"} ELSE {})
                        ELSE {"none"}]
      \cup [res : {"unexpected", "thrown"}
                      \cup (IF Len(t.ops) > 1 THEN {"firstThrown"} ELSE {})
                      \cup (IF t.list THEN {"okBroken"} ELSE {}),
            id : {"none"}]

\* Mutant: only null counts as no id.
HasId_NotNull(id) == id # "null"

\* lines 192, 216, 247, 311, 342, 381, 430: if (globalDocumentId)
HasId(id) == id \notin {"null", "undefined"}

\* lines 60, 68, 134, 141, 179: the id after the test.
GlobalIdAfter(t, ans) ==
    IF t.storesId /\ ans.res = "ok" /\ ans.id # "none"
    THEN ans.id ELSE globalDocumentId

\* The calls the test makes, with the id it passes.
GlobalCallsOf(t, ans) ==
    LET made == IF ans.res = "firstThrown" THEN <<t.ops[1]>> ELSE t.ops
    IN  [k \in 1..Len(made) |->
            [op |-> made[k],
             id |-> IF t.byId THEN globalDocumentId ELSE "none"]]

\* The logTest calls of the test: the catch of a test that had already
\* logged its success logs a failure as well.
GlobalLogsOf(t, ans) ==
    IF ans.res = "okBroken"
    THEN <<[test |-> t.name, ok |-> TRUE], [test |-> t.name, ok |-> FALSE]>>
    ELSE <<[test |-> t.name, ok |-> ans.res = "ok"]>>

\* lines 73-83: return when Test 1 did not get its 200 or threw.
GlobalStops(t, ans) == t.gate /\ ans.res # "ok"

\* lines 15-21: without an API key the script exits at once; otherwise
\* runGlobalContentTests starts (548).
GlobalStart ==
    /\ gpc = "start"
    /\ \E key \in {"unset", "set"} :
          gpc' = IF key = "set" THEN "tests" ELSE "exited"
    /\ UNCHANGED <<gnext, globalDocumentId, globalCalls, globalLog, nonGlobalVars>>

\* lines 46-525: the next test of runGlobalContentTests runs.
GlobalRunTest ==
    /\ gpc = "tests"
    /\ LET t == GlobalTests[gnext] IN
       IF t.byId /\ ~HasId(globalDocumentId)
       THEN /\ globalLog' = Append(globalLog, [test |-> t.name, ok |-> FALSE])
            /\ gpc' = IF gnext = Len(GlobalTests) THEN "end" ELSE "tests"
            /\ UNCHANGED <<globalDocumentId, globalCalls>>
       ELSE \E ans \in GlobalAnswers(t) :
              /\ globalCalls' = globalCalls \o GlobalCallsOf(t, ans)
              /\ globalLog' = globalLog \o GlobalLogsOf(t, ans)
              /\ globalDocumentId' = GlobalIdAfter(t, ans)
              /\ gpc' = IF GlobalStops(t, ans) THEN "returned"
                        ELSE IF gnext = Len(GlobalTests) THEN "end" ELSE "tests"
    /\ gnext' = gnext + 1
    /\ UNCHANGED nonGlobalVars

InitGlobal ==
    /\ gpc = "start" /\ gnext = 1
    /\ globalDocumentId = "null"
    /\ globalCalls = <<>> /\ globalLog = <<>>
    /\ NoResolver /\ NoBatch /\ NoRace /\ NoAuth /\ NoAtt /\ NoUsers

NextGlobal ==
    \/ GlobalStart
    \/ GlobalRunTest

SpecGlobal == InitGlobal /\ [][NextGlobal]_vars

----------------------------------------------------------------------------
(* The users script: src/unnamed/part_000 *)

\* lines 52-200: the tests of runUsersApiTests in their order, with the
\* operation each calls and whether it is gated on testUserId (135, 158).
UsersTests == <<
    [name |-> "List users", op |-> "userList", byId |-> FALSE],
    [name |-> "Check username uniqueness", op |-> "userUniqueUsername",
     byId |-> FALSE],
    [name |-> "Create new user", op |-> "userCreate", byId |-> FALSE],
    [name |-> "Get user by ID", op |-> "userGetById", byId |-> TRUE],
    [name |-> "Update user with PATCH", op |-> "userPatchById", byId |-> TRUE],
    [name |-> "Check existing username uniqueness", op |-> "userUniqueUsername",
     byId |-> FALSE] >>

\* What a call of a test can answer: the response the test accepts ("ok"),
\* another response ("unexpected") or an error ("thrown"); userCreate can
\* also answer 200 without an _id ("okNoId", 117).
UsersAnswers(t) ==
    {"ok", "unexpected", "thrown"}
        \cup (IF t.op = "userCreate" THEN {"okNoId"} ELSE {})

\* lines 117-118: testUserId = data._id when userCreate answered 200 with an _id.
UserIdAfter(t, ans) ==
    IF t.op = "userCreate" /\ ans = "ok" THEN "user1" ELSE testUserId

\* Mutant: the cleanup deletes whether or not a user id was stored.
NeedsCleanup_Always(id) == TRUE

\* line 212: if (testUserId)
NeedsCleanup(id) == id # "null"

\* What userDeleteById can answer.
UserDeleteAnswers == {"ok200", "okOther", "e404", "eHttp", "eNoResp"}

\* lines 14-20: without an API key the script exits at once; otherwise
\* runUsersApiTests starts (236).
UsersStart ==
    /\ upc = "start"
    /\ \E key \in {"unset", "set"} :
          upc' = IF key = "set" THEN "tests" ELSE "exited"
    /\ UNCHANGED <<testUserId, userCalls, userLog, nonUsersVars>>

\* lines 52-204: the next test of runUsersApiTests runs.
UsersRunTest ==
    /\ upc = "tests"
    /\ LET t == UsersTests[Len(userLog) + 1] IN
       IF t.byId /\ ~NeedsCleanup(testUserId)
       THEN /\ userLog' = Append(userLog, [test |-> t.name, ok |-> FALSE])
            /\ UNCHANGED <<testUserId, userCalls>>
       ELSE \E ans \in UsersAnswers(t) :
              /\ userCalls' = Append(userCalls,
                     [op |-> t.op,
                      id |-> IF t.byId THEN testUserId ELSE "none",
                      res |-> ans])
              /\ userLog' = Append(userLog, [test |-> t.name, ok |-> ans = "ok"])
              /\ testUserId' = UserIdAfter(t, ans)
    /\ upc' = IF Len(userLog') = Len(UsersTests) THEN "cleanup" ELSE "tests"
    /\ UNCHANGED nonUsersVars

\* lines 210-228: the cleanup block, after the outer try/catch.
UsersRunCleanup ==
    /\ upc = "cleanup"
    /\ IF NeedsCleanup(testUserId)
       THEN \E res \in UserDeleteAnswers :
              /\ userCalls' = Append(userCalls,
                     [op |-> "userDeleteById", id |-> testUserId, res |-> res])
              /\ userLog' = Append(userLog,
                     [test |-> "Delete test user",
                      ok |-> UsersOnDelete(res) = "deleted"])
       ELSE /\ userLog' = Append(userLog,
                     [test |-> "Delete test user", ok |-> FALSE])
            /\ UNCHANGED userCalls
    /\ upc' = "end"
    /\ UNCHANGED <<testUserId, nonUsersVars>>

InitUsers ==
    /\ upc = "start"
    /\ testUserId = "null"
    /\ userCalls = <<>> /\ userLog = <<>>
    /\ NoResolver /\ NoBatch /\ NoRace /\ NoAuth /\ NoAtt /\ NoGlobal

NextUsersScript ==
    \/ UsersStart
    \/ UsersRunTest
    \/ UsersRunCleanup

SpecUsers == InitUsers /\ [][NextUsersScript]_vars

----------------------------------------------------------------------------
(* What the claims speak about *)

IsDelete(c)    == c.op = "delete"
IsUnpublish(c) == c.op = "unpublish"

\* The delete calls of the resolution in progress, in the order issued.
DeleteCalls == SelectSeq(calls, IsDelete)

UnpublishCalls == SelectSeq(calls, IsUnpublish)

Done == pc = "done"

Succeeded == outcome \in {"Deleted", "AlreadyAbsent"}

\* The candidate ids of the running resolver, as its code derives them.
Candidates ==
    CASE resolver = "media" -> TryIds(OrElse(it.aposDocId, it.id))
      [] resolver = "pages" -> PageCandidates(it.id, actualPageData)
      [] OTHER              -> <<it.id>>

\* The aposDocId the resolver knows: from the created item (media) or from
\* the fetched page (pages).
KnownDocId ==
    CASE resolver = "media" -> it.aposDocId
      [] resolver = "pages" -> actualPageData.aposDocId
      [] OTHER              -> NoId

\* lines 93, 95, 103 (media) and 863, 866, 881, 895, 910 (pages): the
\* resolvers return a bare boolean; no reason travels with it.
ReturnValue ==
    [value |-> Succeeded, reasons |-> <<>>]

AllDeletesErrored ==
    \A k \in 1..Len(DeleteCalls) : DeleteCalls[k].res \in {"eHttp", "eNoResp"}

----------------------------------------------------------------------------
(* C1: short-circuit on success. A delete call that answered 200 is the     *)
(* last delete call of its resolution and the resolution ended Deleted: no  *)
(* delete is issued after a success, at most one delete succeeds, and a     *)
(* success of the first candidate leaves exactly one delete call.           *)
C1_ShortCircuitOnSuccess ==
    \A k \in 1..Len(DeleteCalls) :
        DeleteCalls[k].res = "ok200" =>
            /\ k = Len(DeleteCalls)
            /\ Done /\ outcome = "Deleted"

\* The first of three candidates succeeded and nothing else was tried.
C1_Witness ==
    /\ Done /\ Len(Candidates) = 3
    /\ Len(DeleteCalls) = 1 /\ DeleteCalls[1].res = "ok200"

(* C2: short-circuit on not-found, as claimed for every resolver: a delete  *)
(* call that answered 404 is the last delete call and the resolution ended  *)
(* AlreadyAbsent, a success.                                                *)
C2_NotFoundIsAlreadyAbsent ==
    \A k \in 1..Len(DeleteCalls) :
        DeleteCalls[k].res = "e404" =>
            /\ k = Len(DeleteCalls)
            /\ Done /\ outcome = "AlreadyAbsent"

(* C3: a failure other than not-found never ends the resolution while       *)
(* untried candidates remain: a resolution whose last delete call failed    *)
(* has attempted every candidate.                                           *)
C3_FailureMovesOn ==
    (Done /\ DeleteCalls # <<>>
          /\ DeleteCalls[Len(DeleteCalls)].res \in {"okOther", "eHttp", "eNoResp"})
        => Len(DeleteCalls) = Len(Candidates)

(* C4: postcondition of retire, as claimed: after a success outcome the     *)
(* document exists under no identifier form.                                *)
C4_SuccessMeansAbsent ==
    (Done /\ Succeeded) => store = {}

(* C5: unpublish never blocks. Once the unpublish call has been answered,   *)
(* whatever the answer, the resolver is pausing before the delete step or   *)
(* has issued a delete call.                                                *)
C5_UnpublishNeverBlocks ==
    \A k \in 1..Len(calls) :
        (calls[k].op = "unpublish" /\ calls[k].res # "pending") =>
            \/ pc \in {"m_pause", "p_pause"}
            \/ \E j \in (k + 1)..Len(calls) : calls[j].op = "delete"

\* The unpublish step threw and the resolution still ended Deleted.
C5_Witness ==
    /\ Done /\ outcome = "Deleted"
    /\ \E k \in 1..Len(calls) :
          calls[k].op = "unpublish" /\ calls[k].res \in {"eHttp", "eNoResp"}

\* The candidate list of the data model: the aposDocId if known, the rawId
\* with its published marker rewritten to draft, the bare id.
C6_ListedCandidates ==
    NewSet((IF KnownDocId # NoId THEN <<KnownDocId>> ELSE <<>>)
           \o <<ReplacePublishedByDraft(it.id), SplitFirst(it.id)>>)

IsPrefix(s, t) == Len(s) <= Len(t) /\ \A k \in 1..Len(s) : s[k] = t[k]

DeleteIds == [k \in 1..Len(DeleteCalls) |-> DeleteCalls[k].id]

(* C6 as claimed: the ids passed to delete are, in order, the aposDocId if  *)
(* known, the rawId rewritten to draft, the bare id, and nothing else.      *)
C6_ListedOrder ==
    IsPrefix(DeleteIds, C6_ListedCandidates)

\* The order each resolver follows.
C6_CodeOrder ==
    CASE resolver = "media" ->
           LET first == OrElse(it.aposDocId, it.id)
           IN  NewSet(<<first, ReplacePublishedByDraft(first), SplitFirst(first)>>)
      [] resolver = "pages" ->
           LET first == IF actualPageData.loaded THEN actualPageData.aposDocId
                        ELSE IF IncludesPublished(it.id) THEN SplitFirst(it.id)
                        ELSE it.id
           IN  IF IncludesPublished(it.id)
               THEN <<first, ReplacePublishedByDraft(it.id), SplitFirst(it.id)>>
               ELSE <<first>>
      [] OTHER -> <<it.id>>

(* C6 amended: the ids passed to delete are, in order: for media, the item  *)
(* id handed to the resolver (the aposDocId if known, else the rawId        *)
(* itself), that id rewritten to draft, its bare id, duplicates removed;    *)
(* for pages, the fetched aposDocId (or, the fetch having failed, the bare  *)
(* id of a published rawId, else the rawId), then for a published rawId its *)
(* draft form and its bare id; for users the rawId alone. A known aposDocId *)
(* is the first id attempted.                                               *)
C6_CandidateOrder ==
    /\ IsPrefix(DeleteIds, C6_CodeOrder)
    /\ (KnownDocId # NoId /\ DeleteIds # <<>>) => DeleteIds[1] = KnownDocId

\* A published rawId with unknown aposDocId: the rawId itself was tried
\* first, then its draft form, then the bare id.
C6_Witness ==
    /\ resolver = "media" /\ it.aposDocId = NoId
    /\ DeleteIds = <<IdPub, IdDraft, IdBare>>

(* C7: candidate set invariant, as claimed: no identifier is passed to      *)
(* delete twice in one resolution, and a finished resolution has attempted  *)
(* at least one identifier.                                                 *)
C7_NoDuplicateCandidates ==
    /\ \A j, k \in 1..Len(DeleteIds) : DeleteIds[j] = DeleteIds[k] => j = k
    /\ Done => DeleteIds # <<>>

(* C8 as claimed: when delete errors for all N candidates the returned      *)
(* Failed outcome carries exactly N reasons.                                *)
C8_ReturnCarriesReasons ==
    (Done /\ outcome = "Failed" /\ AllDeletesErrored
          /\ resolver \in {"media", "pages"}
          /\ Len(DeleteCalls) = Len(Candidates))
        => Len(ReturnValue.reasons) = Len(Candidates)

(* C8 amended: when delete throws a non-not-found error for all N           *)
(* candidates, the resolver reports failure (returns false) and has written *)
(* exactly N reasons to the console, one per attempted candidate, in        *)
(* candidate order; the returned value itself carries none.                 *)
C8_FailureAggregation ==
    (Done /\ AllDeletesErrored /\ DeleteCalls # <<>>) =>
        /\ outcome = "Failed" /\ ~ReturnValue.value
        /\ Len(DeleteCalls) = Len(Candidates)
        /\ Len(logged) = Len(Candidates)
        /\ \A k \in 1..Len(logged) :
              /\ logged[k].id = Candidates[k]
              /\ logged[k].res = DeleteCalls[k].res

\* Three candidates errored with different reasons.
C8_Witness ==
    /\ Done /\ outcome = "Failed" /\ Len(logged) = 3
    /\ logged[1].res = "eHttp" /\ logged[3].res = "eNoResp"

(* C9: idempotence of safeDeleteDocument against a stable store. When the   *)
(* previous call for the item ended Deleted, the next call leaves the store *)
(* as it found it and ends AlreadyAbsent.                                   *)
C9_Idempotent ==
    (round >= 2 /\ prevOutcome = "Deleted") =>
        /\ store = storeAtStart
        /\ Done => outcome = "AlreadyAbsent"

\* The second call got past a candidate that errors and found the document gone.
C9_Witness ==
    /\ round = 2 /\ prevOutcome = "Deleted"
    /\ Done /\ outcome = "AlreadyAbsent" /\ Len(DeleteCalls) >= 2

\* The unpublish step is configured for this resolution.
UnpublishConfigured ==
    \/ resolver = "media" /\ unpublishMethod
    \/ resolver = "pages"

\* Unpublish is called once and answered before the first delete; no two
\* calls are in flight.
C10_Protocol ==
    /\ Len(UnpublishCalls) <= 1
    /\ (UnpublishConfigured /\ (Done \/ DeleteCalls # <<>>)) => Len(UnpublishCalls) = 1
    /\ \A j, k \in 1..Len(calls) :
          (calls[j].op = "delete" /\ calls[k].op = "unpublish")
              => (k < j /\ calls[k].res # "pending")
    /\ \A k \in 1..Len(calls) : calls[k].res = "pending" => k = Len(calls)

(* C10 as claimed: the unpublish pre-step is invoked exactly once, with the *)
(* ref's rawId, and answered before the first delete; one call at a time.   *)
C10_UnpublishWithRawId ==
    /\ C10_Protocol
    /\ \A k \in 1..Len(UnpublishCalls) : UnpublishCalls[k].id = it.id

(* C10 amended: the unpublish pre-step, when configured, is invoked exactly *)
(* once per resolution with the id handed to the resolver, which for the    *)
(* media cleanup is the aposDocId when known and the rawId otherwise, and   *)
(* is answered before the first delete is issued; every call is awaited     *)
(* before the next one is issued.                                           *)
C10_PreStepProtocol ==
    /\ C10_Protocol
    /\ \A k \in 1..Len(UnpublishCalls) :
          UnpublishCalls[k].id =
              IF resolver = "media" THEN OrElse(it.aposDocId, it.id) ELSE it.id

\* The media cleanup knew the aposDocId: unpublish got it, not the rawId.
C10_Witness ==
    /\ resolver = "media" /\ Done
    /\ it.aposDocId = IdBare /\ it.id = IdPub
    /\ Len(UnpublishCalls) = 1 /\ UnpublishCalls[1].id = IdBare
    /\ DeleteCalls # <<>>

(* C11: bounded side effects, as claimed: one resolution of media or pages  *)
(* issues at most N delete calls, N being the number of distinct candidate  *)
(* ids (N <= 3), and at most one unpublish call; a resolution that has      *)
(* returned has issued at least one delete call.                            *)
C11_BoundedSideEffects ==
    resolver \in {"media", "pages"} =>
        /\ Len(NewSet(Candidates)) <= 3
        /\ Len(DeleteCalls) <= Len(NewSet(Candidates))
        /\ Len(UnpublishCalls) <= 1
        /\ Done => Len(DeleteCalls) >= 1

\* Every call the resolution made threw without an HTTP response.
AllCallsThrew ==
    \A k \in 1..Len(calls) : calls[k].res = "eNoResp"

(* C12: no error is fatal. Whatever the fetch, unpublish and delete calls   *)
(* answer, a resolver that has not returned can take its next step, and one *)
(* that has returned did so with a result (Deleted, AlreadyAbsent or        *)
(* Failed): no exception leaves it and it does not end the process.         *)
C12_NoErrorIsFatal ==
    /\ outcome \in {"none", "Deleted", "AlreadyAbsent", "Failed"}
    /\ Done <=> outcome # "none"
    /\ ~Done => ENABLED Next

\* safeDeletePage returned false after its fetch, its unpublish and its three
\* deletes all threw without a response.
C12_Witness ==
    /\ resolver = "pages" /\ Done /\ outcome = "Failed"
    /\ Len(calls) = 5 /\ AllCallsThrew

WasCreated(c) == c.res = "ok200"

\* The resources recorded as created, latest first.
DueForCleanup == Reverse(SelectSeq(createLog, WasCreated))

(* C13: batch teardown. The calls of safeDeleteDocument made by the media   *)
(* cleanup are, in order, one for each create call that answered 200 with   *)
(* an _id, latest first, each with the aposDocId (or else the _id) of that  *)
(* resource; whatever the earlier resolutions returned, the cleanup has     *)
(* called the resolver for every one of them when it ends.                  *)
C13_BatchTeardown ==
    /\ Len(resolved) <= Len(DueForCleanup)
    /\ \A k \in 1..Len(resolved) :
          /\ resolved[k].type = DueForCleanup[k].type
          /\ resolved[k].id = OrElse(DueForCleanup[k].aposDocId, DueForCleanup[k].id)
    /\ phase = "finished" => Len(resolved) = Len(DueForCleanup)

\* Four resources were created; retiring the file tag failed and the file,
\* the image tag and the image were retired after it.
C13_Witness ==
    /\ phase = "finished" /\ Len(resolved) = 4
    /\ resolved[1].type = "fileTag" /\ resolved[1].ret = "false"
    /\ resolved[4].type = "image" /\ resolved[4].ret = "true"

\* The outcome the answers of the delete calls of a resolution stand for.
OutcomeOfAnswers ==
    IF DeleteCalls = <<>> THEN "Failed"
    ELSE LET last == DeleteCalls[Len(DeleteCalls)].res
         IN  CASE last = "ok200" -> "Deleted"
               [] last = "e404"  -> "AlreadyAbsent"
               [] OTHER          -> "Failed"

\* Every call of the resolution in progress was made with an id derived from
\* the id handed to the resolver, and its outcome is the one the answers of
\* its calls stand for.
C14_Determined ==
    (phase = "loop" /\ pc # "off") =>
        LET arg == resolved[Len(resolved)].id IN
        /\ IsPrefix(DeleteIds, TryIds(arg))
        /\ \A k \in 1..Len(UnpublishCalls) : UnpublishCalls[k].id = arg
        /\ Done => outcome = OutcomeOfAnswers

\* A step of the cleanup leaves state.created alone, and a step of a
\* resolution leaves the item and the list the loop walks alone as well.
C14_FrameStep ==
    /\ phase \in {"cleanup", "loop"} => created' = created
    /\ pc # "off" => (it' = it /\ items' = items)

(* C14: frame condition. While safeDeleteDocument runs for an item of the   *)
(* media cleanup, the item (id, aposDocId), the list the cleanup walks and  *)
(* state.created stay as they were; the ids it calls with are derived from  *)
(* its argument alone and its outcome from the answers of its own calls,    *)
(* whatever the resolutions before it did.                                  *)
C14_FrameCondition ==
    [] C14_Determined /\ [][C14_FrameStep]_vars

\* The second resolution of a cleanup ended Deleted at its third candidate
\* after the first one had failed.
C14_Witness ==
    /\ phase = "loop" /\ Done /\ Len(resolved) = 2
    /\ resolved[1].ret = "false"
    /\ outcome = "Deleted" /\ Len(DeleteCalls) = 3
    /\ created = Reverse(items)

BothDone == pc = "done" /\ other.pc = "done"

(* C15: concurrent retirement, as claimed: when two resolutions of the same *)
(* item have both returned, each has an outcome, and if one of them is      *)
(* Deleted or AlreadyAbsent the document is under no identifier form in the *)
(* store.                                                                   *)
C15_ConcurrentEndState ==
    BothDone =>
        /\ outcome \in {"Deleted", "AlreadyAbsent", "Failed"}
        /\ other.outcome \in {"Deleted", "AlreadyAbsent", "Failed"}
        /\ (Succeeded \/ other.outcome \in {"Deleted", "AlreadyAbsent"})
              => store = {}

\* Every delete call answered so far on id was answered res.
DeleteAnswers(id, res) ==
    \A k \in 1..Len(DeleteCalls) :
        (DeleteCalls[k].id = id /\ DeleteCalls[k].res # "pending")
            => DeleteCalls[k].res = res

\* Scenario 2: a published rawId, no aposDocId known to the resolver (for
\* pages: the fetch is over and gave none), delete on the draft form answers
\* not-found and delete on the bare id succeeds.
ScenarioTwo ==
    /\ resolver \in {"media", "pages"}
    /\ it.id = IdPub /\ KnownDocId = NoId
    /\ resolver = "pages" => pc \notin {"idle", "p_get"}
    /\ DeleteAnswers(IdDraft, "e404")
    /\ DeleteAnswers(IdBare, "ok200")

(* C16 as claimed: in scenario 2 the ids tried are exactly the draft form   *)
(* and the bare id, and the outcome is Deleted after 2 delete calls.        *)
C16_DraftThenBare ==
    (ScenarioTwo /\ Done) =>
        /\ DeleteIds = <<IdDraft, IdBare>>
        /\ outcome = "Deleted"

(* C16 amended: in scenario 2, safeDeleteDocument tries the rawId itself    *)
(* first and, if that call neither succeeded nor answered not-found, the    *)
(* draft form, whose not-found ends the resolution as AlreadyAbsent after 2 *)
(* delete calls; it never tries the bare id. safeDeletePage whose fetch     *)
(* failed tries the bare id alone and ends Deleted after 1 delete call;     *)
(* when its fetch gave a page without aposDocId it tries undefined, the     *)
(* draft form and the bare id, and ends Deleted after 3 delete calls.       *)
C16_ScenarioTwo ==
    (ScenarioTwo /\ Done) =>
        CASE resolver = "media" ->
               \/ /\ DeleteIds = <<IdPub>>
                  /\ DeleteCalls[1].res \in {"ok200", "e404"}
                  /\ outcome = OutcomeOfAnswers
               \/ /\ DeleteIds = <<IdPub, IdDraft>>
                  /\ outcome = "AlreadyAbsent"
          [] resolver = "pages" /\ ~actualPageData.loaded ->
               DeleteIds = <<IdBare>> /\ outcome = "Deleted"
          [] OTHER ->
               DeleteIds = <<NoId, IdDraft, IdBare>> /\ outcome = "Deleted"

\* safeDeleteDocument got an error for the rawId and not-found for the draft
\* form, and reported the document as already gone.
C16_Witness ==
    /\ ScenarioTwo /\ Done /\ resolver = "media"
    /\ DeleteIds = <<IdPub, IdDraft>>
    /\ DeleteCalls[1].res = "eHttp"
    /\ outcome = "AlreadyAbsent"

\* Scenario 4: the media cleanup retires an item with a published rawId and
\* a known aposDocId, and every delete attempt errors.
ScenarioFour ==
    /\ resolver = "media"
    /\ it = [id |-> IdPub, aposDocId |-> IdBare]
    /\ Done /\ DeleteCalls # <<>> /\ AllDeletesErrored

(* C17 as claimed: in scenario 4 exactly three candidates are attempted and *)
(* the outcome is Failed with three reasons, in attempt order.              *)
C17_ThreeAttempts ==
    ScenarioFour =>
        /\ Len(DeleteCalls) = 3
        /\ outcome = "Failed"
        /\ Len(logged) = 3

(* C17 amended: in scenario 4 the media cleanup hands the aposDocId to      *)
(* safeDeleteDocument, which attempts that one id only; the outcome is      *)
(* Failed and one reason, that of the one attempt, is written to the        *)
(* console.                                                                 *)
C17_ScenarioFour ==
    ScenarioFour =>
        /\ DeleteIds = <<IdBare>>
        /\ outcome = "Failed"
        /\ logged = <<[id |-> IdBare, res |-> DeleteCalls[1].res]>>

\* The one attempt answered an HTTP error and the resolution failed.
C17_Witness ==
    /\ ScenarioFour
    /\ outcome = "Failed"
    /\ Len(DeleteCalls) = 1 /\ DeleteCalls[1].res = "eHttp"

(* C18: scenario 3, as claimed: for a rawId without locale or mode markers  *)
(* and no known aposDocId, retired by safeDeleteDocument or by the users    *)
(* cleanup, the candidates are the rawId alone, and when delete on it       *)
(* answers not-found the outcome is AlreadyAbsent after exactly 1 delete    *)
(* call.                                                                    *)
C18_ScenarioThree ==
    (resolver \in {"media", "users"} /\ it.id = IdBare /\ KnownDocId = NoId) =>
        /\ Candidates = <<IdBare>>
        /\ (Done /\ DeleteCalls # <<>> /\ DeleteCalls[1].res = "e404") =>
              /\ Len(DeleteCalls) = 1
              /\ outcome = "AlreadyAbsent"

\* runPasswordResetTests has run to its end.
ResetTestsRan ==
    \E k \in 1..Len(authLog) : authLog[k].test = "Password reset completion"

\* The password reset route has been called.
ResetRequested ==
    \E k \in 1..Len(authCalls) : authCalls[k] = "authResetRequest"

(* C19: password-reset gating, as claimed: once the authentication script   *)
(* has run with RUN_PASSWORD_RESET_TESTS=true, runPasswordResetTests has    *)
(* run and authResetRequest has been called; with neither                   *)
(* RUN_PASSWORD_RESET_TESTS nor APOSTROPHE_TEST_EMAIL set the tests are     *)
(* skipped and authResetRequest is never called.                            *)
C19_PasswordResetGating ==
    /\ (apc = "end" /\ env.runReset = "true")
          => (ResetTestsRan /\ ResetRequested)
    /\ (~Truthy(env.runReset) /\ ~Truthy(env.testEmail))
          => (~ResetTestsRan /\ ~ResetRequested /\ apc # "reset")

\* The names of the tests the runner has called, in order.
ExecutedTests == [k \in 1..Len(executed) |-> executed[k].test]

\* The test is among the failed ones.
AttFailed(name) ==
    \E k \in 1..Len(results.errors) : results.errors[k] = name

(* C20: attachments runner control flow. The tests called so far are the    *)
(* first tests of the list, in its order; when 'Load Test Image' failed no  *)
(* other test was called; and when it did not fail, the runner reaches its  *)
(* summary only after all six tests were called, whichever of them failed.  *)
C20_RunnerControlFlow ==
    /\ IsPrefix(ExecutedTests, AttTests)
    /\ AttFailed("Load Test Image") => (Len(executed) = 1 /\ att # "running")
    /\ (att # "running" /\ ~AttFailed("Load Test Image"))
          => ExecutedTests = AttTests

\* The upload and the crop failed, and the two tests after the crop were
\* still called.
C20_Witness ==
    /\ att = "exited"
    /\ results.errors = <<"Upload Attachment", "Crop Attachment">>
    /\ Len(executed) = 6

\* The call of a test by the runner ended with a throw.
Threw(e) == ~AttReturns(e.test, e.ans)

\* The names of the tests that threw, in the order the runner called them.
ThrownTests ==
    LET failedCalls == SelectSeq(executed, Threw)
    IN  [k \in 1..Len(failedCalls) |-> failedCalls[k].test]

(* C21: attachments runner accounting. At any point passed + failed is the  *)
(* number of tests called and errors lists the tests that threw, one entry  *)
(* each, in the order they were called; when the loop is over at least one  *)
(* test was called, so the success rate never divides by zero; and the      *)
(* process exits with code 1 exactly when failed > 0.                       *)
C21_RunnerAccounting ==
    /\ results.passed + results.failed = Len(executed)
    /\ Len(results.errors) = results.failed
    /\ results.errors = ThrownTests
    /\ att # "running" => results.passed + results.failed >= 1
    /\ att = "exited" => results.failed > 0
    /\ att = "end" => results.failed = 0

\* Four tests passed, two failed, and the process exited with code 1.
C21_Witness ==
    /\ att = "exited"
    /\ results.passed = 4 /\ results.failed = 2
    /\ results.errors = <<"Crop Attachment", "Upload Different Modes">>

\* The runner has called the test and the test's SDK call answered ans.
Answered(name, ans) ==
    \E k \in 1..Len(executed) : executed[k] = [test |-> name, ans |-> ans]

(* C22: attachments Test 3, as claimed: when attachmentUpload with a null   *)
(* file does not throw, the runner counts Test 3 among the failed tests.    *)
C22_InvalidUploadSucceeds ==
    Answered("Upload Invalid Parameters", "resolved")
        => AttFailed("Upload Invalid Parameters")

(* C23: attachments Test 5 is reported as failed exactly when attachmentCrop *)
(* with a non-existent id resolves, throws without a response or throws     *)
(* with a status other than 400, 404 and 401; it passes on 400, 404 and 401. *)
C23_InvalidCrop ==
    \A k \in 1..Len(executed) :
        executed[k].test = "Crop Invalid Parameters"
            => (AttFailed("Crop Invalid Parameters")
                    <=> executed[k].ans \notin {"e404", "e400", "e401"})

\* The crop with a non-existent id succeeded and Test 5 is among the failed.
C23_Witness ==
    /\ Answered("Crop Invalid Parameters", "resolved")
    /\ AttFailed("Crop Invalid Parameters")

\* The runner has called the test.
WasExecuted(name) == \E k \in 1..Len(executed) : executed[k].test = name

(* C24: attachments test dependency, as claimed: Test 4 has sent a crop     *)
(* request only if Test 2 passed, and then with the _id of the attachment   *)
(* Test 2 validated; once Test 4 has run after a failed Test 2, it is among *)
(* the failed tests and no crop request was sent.                           *)
C24_CropNeedsUpload ==
    /\ cropRequest.sent
          => (~AttFailed("Upload Attachment") /\ cropRequest.id = "withId")
    /\ (AttFailed("Upload Attachment") /\ WasExecuted("Crop Attachment"))
          => (AttFailed("Crop Attachment") /\ ~cropRequest.sent)

(* C25: crop bounds, as claimed: when the image Test 2 uploaded has a width *)
(* and a height of at least 1, each side of the crop rectangle Test 4 sent  *)
(* for it is at least 1 and at most the corresponding side of the image.    *)
C25_CropWithinImage ==
    (/\ cropRequest.sent /\ cropRequest.id = "withId"
     /\ imageSize.width >= 1 /\ imageSize.height >= 1)
        => /\ 1 <= cropRequest.width /\ cropRequest.width <= imageSize.width
           /\ 1 <= cropRequest.height /\ cropRequest.height <= imageSize.height

\* The login of Test 5 answered with a token.
LoginReturnedToken ==
    \E k \in 1..Len(authWith) :
        authWith[k].test = "Username/password login" /\ authWith[k].token

\* The test has made a call.
CalledBy(name) == \E k \in 1..Len(authWith) : authWith[k].test = name

\* The test has been reported, and reported as failed.
ReportedFailed(name) ==
    \E k \in 1..Len(authLog) : authLog[k] = [test |-> name, ok |-> FALSE]

BearerTests == {"Bearer token authentication", "Logout with bearer token"}

(* C26: authentication suite sequencing. A call carries an access token     *)
(* only when a bearer-token test (Test 7 or 9) makes it after the login of  *)
(* Test 5 answered with a token; without that token each bearer-token test  *)
(* that has run was reported failed and made no call. The ten tests are     *)
(* reported in their order, the runner always has a next test to run, and   *)
(* once it is past them Test 10 has made its call with the API key, after   *)
(* every call of Tests 7 and 9.                                             *)
C26_BearerSequencing ==
    /\ \A k \in 1..Len(authWith) :
          authWith[k].cred = "accessToken"
              => (authWith[k].test \in BearerTests /\ LoginReturnedToken)
    /\ \A k \in 1..Len(authLog) :
          (authLog[k].test \in BearerTests /\ ~LoginReturnedToken)
              => (ReportedFailed(authLog[k].test) /\ ~CalledBy(authLog[k].test))
    /\ \A k \in 1..Len(authLog) :
          (authLog[k].test \in BearerTests /\ LoginReturnedToken)
              => CalledBy(authLog[k].test)
    /\ \A k \in 1..Len(authLog) :
          k <= Len(AuthTests) => authLog[k].test = AuthTests[k].name
    /\ apc = "tests" => (Len(authLog) < Len(AuthTests) /\ ENABLED AuthRunTest)
    /\ apc \in {"gate", "reset", "resetWait", "end"}
          => \E k \in 1..Len(authWith) :
                /\ authWith[k] = [test |-> "API key validity after logout",
                                  cred |-> "apiKey", token |-> FALSE]
                /\ \A j \in 1..Len(authWith) :
                      authWith[j].test \in BearerTests => j < k

\* The login returned a token, Tests 7, 8 and 9 all failed after their calls,
\* and Test 10 was still run.
C26_Witness ==
    /\ LoginReturnedToken
    /\ \A name \in BearerTests \cup {"Logout with API key"} :
          CalledBy(name) /\ ReportedFailed(name)
    /\ CalledBy("API key validity after logout")

\* The operations that take the document id as their first argument.
ByIdOps == {"globalGetById", "globalPatchById", "globalPublishById",
            "globalGetLocalesById", "globalPutById", "globalSubmitById",
            "globalRevertDraftToPublishedById"}

\* Test 1 was reported as failed.
GateFailed == \E k \in 1..Len(globalLog) :
    globalLog[k] = [test |-> "Verify authentication", ok |-> FALSE]

(* C27: global content suite gate. Once Test 1 was reported failed (its     *)
(* globalGet threw or answered a status other than 200) the suite has       *)
(* returned having made that one call only and makes no further one; and    *)
(* every by-id operation is called with a document id, never with null or   *)
(* undefined.                                                               *)
C27_GlobalGate ==
    /\ GateFailed => (gpc = "returned" /\ Len(globalCalls) = 1
                          /\ ~ENABLED GlobalRunTest)
    /\ \A k \in 1..Len(globalCalls) :
          globalCalls[k].op \in ByIdOps => globalCalls[k].id \in GlobalIds

\* The globalGet of Test 1 was called, Test 1 failed and the suite returned.
C27_Witness ==
    /\ GateFailed /\ gpc = "returned"
    /\ globalCalls = <<[op |-> "globalGet", id |-> "none"]>>

\* userCreate answered 200 with an _id.
UserCreated ==
    \E k \in 1..Len(userCalls) :
        userCalls[k] = [op |-> "userCreate", id |-> "none", res |-> "ok"]

\* The positions of the userDeleteById calls.
UserDeletes == {k \in 1..Len(userCalls) : userCalls[k].op = "userDeleteById"}

\* The positions of the reports of the cleanup.
CleanupReports == {k \in 1..Len(userLog) : userLog[k].test = "Delete test user"}

(* C28: users suite cleanup. userDeleteById is never called twice, and is   *)
(* called only for the id of a user that userCreate answered with status    *)
(* 200; after the six tests the cleanup always takes its step, whatever the *)
(* tests answered; when the run is over the cleanup has reported once, the  *)
(* delete was called exactly once if a user was created and not at all      *)
(* otherwise, and nothing runs after it, so a failed delete is not tried    *)
(* again.                                                                   *)
C28_UsersCleanup ==
    /\ Cardinality(UserDeletes) <= 1
    /\ \A k \in UserDeletes : UserCreated /\ userCalls[k].id = "user1"
    /\ upc = "tests" => ENABLED UsersRunTest
    /\ upc = "cleanup" => (Len(userLog) = Len(UsersTests) /\ ENABLED UsersRunCleanup)
    /\ upc = "end"
          => /\ Cardinality(UserDeletes) = (IF UserCreated THEN 1 ELSE 0)
             /\ Cardinality(CleanupReports) = 1
             /\ ~ENABLED NextUsersScript

\* A user was created, Tests 4 to 6 failed, the delete threw and the run is
\* over.
C28_Witness ==
    /\ upc = "end" /\ UserCreated
    /\ \A k \in 4..6 : ~userLog[k].ok
    /\ \E k \in UserDeletes : userCalls[k].res = "eHttp"

====
